---- MODULE Spec2Model ----
(***************************************************************************)
(* The real-time collaboration layer of the board editor: the room         *)
(* registry and broadcast engine of services/websocket_manager.py          *)
(* (ConnectionManager) and the connection sessions of routes/websocket.py  *)
(* (websocket_endpoint), run by a single-threaded asyncio scheduler.  A    *)
(* task runs without interruption from one `await` to the next; the        *)
(* actions below are exactly these uninterrupted pieces.                   *)
(* With it, the context service of services/context_service.py, which      *)
(* builds a node's LLM context from the rows of its parents in storage.     *)
(***************************************************************************)
EXTENDS Integers, Sequences, FiniteSets, TLC

VARIABLES
    active_connections, \* dict board_id -> set of connections (websocket_manager.py:15)
    connection_boards,  \* dict connection -> board_id          (websocket_manager.py:18)
    connection_users,   \* dict connection -> user info         (websocket_manager.py:21)
    transport,          \* per connection: is the client's transport open, broken or closed
    pc,                 \* per task: where its coroutine is suspended
    sboard,             \* per session: the board_id path parameter of its endpoint call
    frame,              \* per task: the locals of its broadcast_to_room call
    count,              \* per task: external inputs taken so far (events, requests, calls)
    delivered,          \* per connection: the events send_json has sent to it, in order
    joined,             \* history: per board, who called connect and has not called disconnect since
    boardsUsed,         \* history: the boards connect has been called with
    lastCall,           \* history: the last direct call of a manager method
    inbox,              \* history: per session, the texts receive_text has returned, in order
    writes,             \* the update requests the handlers have issued to storage, in order
    nodes,              \* storage: the rows of table "nodes", by id
    edges,              \* storage: the rows of table "edges"
    ret,                \* the last call of a context operation and what it returned
    req                 \* the last request a REST route served, and the calls it made

vars == <<active_connections, connection_boards, connection_users, transport, pc,
          sboard, frame, count, delivered, joined, boardsUsed, lastCall,
          inbox, writes, nodes, edges, ret, req>>

\* What the inbound dispatch adds to the state, and what the storage holds.
inboundVars == <<inbox, writes>>

contextVars == <<nodes, edges, ret, req>>

\* ------------------------------------------------------------------ universe

Conns == {"A", "B", "C"}
Boards == {"b1", "b2"}
None == "none"
\* Connections are named in the order of their handshakes, boards in the order
\* of their first use.
ConnOrder == <<"A", "B", "C">>
FirstBoard == "b1"
UserInfos == {None, "u1"}
\* The inbound event kinds that are rebroadcast with no storage side effect.
Kinds == {"cursor_moved"}

RestTask == "rest"
ApiTask == "drv"

\* Inbound events all sessions together may receive.
MaxEvents == 1
\* Inbound events the two sessions of SpecOrder together may receive.
MaxOrderEvents == 3
\* Requests the REST route update_node may serve.
MaxRest == 1
\* Calls the API driver may make.
MaxCalls == 3
\* Texts the two sessions of SpecDispatch together may receive.
MaxInbound == 2
\* Calls of update_node_context.
MaxRefresh == 2
\* Requests the REST routes serve.
MaxRequests == 2
\* Texts the two sessions of SpecEvicted together may receive.
MaxQueued == 2
\* Calls of the context operations over the board with cycles.
MaxRepeat == 3

\* ------------------------------------------------------------------ helpers

Remove(f, k) == [x \in DOMAIN f \ {k} |-> f[x]]

Put(f, k, v) == [x \in DOMAIN f \cup {k} |-> IF x = k THEN v ELSE f[x]]

Range(s) == {s[i] : i \in DOMAIN s}

\* The empty dict.
Empty == [x \in {} |-> None]

Reg == [ac |-> active_connections, cb |-> connection_boards, cu |-> connection_users]

\* ------------------------------------------------------------------ registry

\* get_room_size: len(active_connections.get(board_id, set()))
RoomSizeIn(ac, b) == IF b \in DOMAIN ac THEN Cardinality(ac[b]) ELSE 0

get_room_size(b) == RoomSizeIn(active_connections, b)

\* connect, its registry part (after accept, before the user_joined broadcast)
ConnectReg(reg, ws, b, ui) ==
    LET room == IF b \in DOMAIN reg.ac THEN reg.ac[b] ELSE {}
    IN  [ac |-> Put(reg.ac, b, room \cup {ws}),
         cb |-> Put(reg.cb, ws, b),
         cu |-> IF ui # None THEN Put(reg.cu, ws, ui) ELSE reg.cu]

\* disconnect as it would be with the room's set left alone: only the two
\* tracking dictionaries are cleaned.
DisconnectRegNoDiscard(reg, ws) ==
    IF ws \notin DOMAIN reg.cb THEN reg
    ELSE [ac |-> reg.ac, cb |-> Remove(reg.cb, ws), cu |-> Remove(reg.cu, ws)]

\* disconnect as it would be without the deletion of an emptied room.
DisconnectRegNoPrune(reg, ws) ==
    IF ws \notin DOMAIN reg.cb THEN reg
    ELSE LET b == reg.cb[ws]
             ac1 == IF b \in DOMAIN reg.ac
                    THEN [reg.ac EXCEPT ![b] = @ \ {ws}]
                    ELSE reg.ac
         IN  [ac |-> ac1, cb |-> Remove(reg.cb, ws), cu |-> Remove(reg.cu, ws)]

\* disconnect as it would be if, instead of returning early for a connection it
\* has no board for, it searched every room for the connection.
DisconnectRegSweep(reg, ws) ==
    IF ws \notin DOMAIN reg.cb
    THEN LET left == {b \in DOMAIN reg.ac : reg.ac[b] \ {ws} # {}}
         IN  [ac |-> [b \in left |-> reg.ac[b] \ {ws}], cb |-> reg.cb,
              cu |-> Remove(reg.cu, ws)]
    ELSE LET b == reg.cb[ws]
             ac1 == IF b \in DOMAIN reg.ac
                    THEN LET room == reg.ac[b] \ {ws}
                         IN  IF room = {} THEN Remove(reg.ac, b)
                             ELSE [reg.ac EXCEPT ![b] = room]
                    ELSE reg.ac
         IN  [ac |-> ac1, cb |-> Remove(reg.cb, ws), cu |-> Remove(reg.cu, ws)]

\* disconnect (websocket_manager.py:58-79)
DisconnectReg(reg, ws) ==
    IF ws \notin DOMAIN reg.cb THEN reg
    ELSE LET b == reg.cb[ws]
             ac1 == IF b \in DOMAIN reg.ac
                    THEN LET room == reg.ac[b] \ {ws}
                         IN  IF room = {} THEN Remove(reg.ac, b)
                             ELSE [reg.ac EXCEPT ![b] = room]
                    ELSE reg.ac
         IN  [ac |-> ac1, cb |-> Remove(reg.cb, ws), cu |-> Remove(reg.cu, ws)]

\* send_personal_message as it would be without the disconnect in its except
\* branch.
SendPersonalRegKeeps(reg, ws, ok) == reg

\* send_personal_message, its registry part: nothing when the send went
\* through (ok), disconnect(websocket) when it raised.
SendPersonalReg(reg, ws, ok) == IF ok THEN reg ELSE DisconnectReg(reg, ws)

\* for conn in disconnected: self.disconnect(conn)
RECURSIVE DisconnectAll(_, _)
DisconnectAll(reg, conns) ==
    IF conns = <<>> THEN reg
    ELSE DisconnectAll(DisconnectReg(reg, Head(conns)), Tail(conns))

\* ------------------------------------------------------------------ events

\* from and seq are history fields (who caused the event, and which of its
\* submissions it was); the other fields are the payload on the wire.  payload
\* is the sequence of the event's other keys and values, key before value.
Event(type, b, n, payload, from, seq) ==
    [type |-> type, board |-> b, user_count |-> n, payload |-> payload,
     from |-> from, seq |-> seq]

NoEvent == Event(None, None, 0, <<>>, None, 0)

\* The user_joined event as it would be with the count taken before the new
\* connection is added to the room.
UserJoinedCountedBefore(ac, b, ws) ==
    Event("user_joined", b, Cardinality(ac[b] \ {ws}), <<>>, ws, 0)

\* The user_joined event connect builds once ws is registered (ac is the
\* registry's active_connections then).
UserJoined(ac, b, ws) ==
    Event("user_joined", b, Cardinality(ac[b]), <<>>, ws, 0)

\* The user_left event the endpoint builds once ws is removed:
\* user_count is manager.get_room_size(board_id).
UserLeft(ac, b, ws) ==
    Event("user_left", b, RoomSizeIn(ac, b), <<>>, ws, 0)

\* ------------------------------------------------------------------ broadcast_to_room

NoFrame ==
    [status |-> "none", board |-> None, msg |-> NoEvent, exclude |-> None,
     live |-> FALSE, targets |-> {}, siUsed |-> 0, visited |-> {},
     detached |-> FALSE, cur |-> None, disconnected |-> <<>>, cont |-> None,
     room |-> {}]

\* The call up to the for loop as it would be with `connections - {exclude}`
\* left out: the room's own set is walked whatever exclude is.
NewFrameNoExclude(ac, b, msg, exclude, cont) ==
    IF b \notin DOMAIN ac
    THEN [NoFrame EXCEPT !.status = "absent", !.board = b, !.msg = msg,
                         !.exclude = exclude, !.cont = cont]
    ELSE [NoFrame EXCEPT !.status = "iter", !.board = b, !.msg = msg,
                         !.exclude = exclude, !.live = TRUE,
                         !.targets = ac[b], !.siUsed = Cardinality(ac[b]),
                         !.cont = cont, !.room = ac[b]]

\* The call up to the for loop.  With an exclude, `connections - {exclude}` is a
\* new set; without one, `connections` is the room's own set object (live), and
\* targets records what it held when the iterator was made.  room is a history
\* field: the members of the room when the call was made.
NewFrame(ac, b, msg, exclude, cont) ==
    IF b \notin DOMAIN ac
    THEN [NoFrame EXCEPT !.status = "absent", !.board = b, !.msg = msg,
                         !.exclude = exclude, !.cont = cont]
    ELSE LET conns == IF exclude # None THEN ac[b] \ {exclude} ELSE ac[b]
         IN  [NoFrame EXCEPT !.status = "iter", !.board = b, !.msg = msg,
                             !.exclude = exclude, !.live = (exclude = None),
                             !.targets = conns, !.siUsed = Cardinality(conns),
                             !.cont = cont, !.room = ac[b]]

\* The set object the frame's iterator walks: its own copy, or the room's set.
\* A room's set that was deleted from the registry stays empty for good.
IterSet(f, ac) ==
    IF ~f.live THEN f.targets
    ELSE IF f.detached \/ f.board \notin DOMAIN ac THEN {} ELSE ac[f.board]

\* next() as it would be over a collection that can hold a connection more
\* than once: a connection already passed may come again.
SetNextRevisits(f, ac) ==
    LET S == IterSet(f, ac)
    IN  IF f.status = "absent" THEN {[kind |-> "stop", conn |-> None]}
        ELSE IF Cardinality(S) # f.siUsed THEN {[kind |-> "raise", conn |-> None]}
        ELSE {[kind |-> "yield", conn |-> c] : c \in S}
             \cup (IF S \subseteq f.visited THEN {[kind |-> "stop", conn |-> None]} ELSE {})

\* One `next()` of the set iterator: RuntimeError when the set's size is not the
\* size it had when the iterator was made; otherwise an entry not yet passed.
\* Entries present from the start are still ahead of the iterator; an entry added
\* since may lie ahead of it or behind it.
SetNext(f, ac) ==
    LET S == IterSet(f, ac)
        ahead == S \ f.visited
        must == ahead \cap f.targets
    IN  IF f.status = "absent" THEN {[kind |-> "stop", conn |-> None]}
        ELSE IF Cardinality(S) # f.siUsed THEN {[kind |-> "raise", conn |-> None]}
        ELSE {[kind |-> "yield", conn |-> c] : c \in ahead}
             \cup (IF must = {} THEN {[kind |-> "stop", conn |-> None]} ELSE {})

\* A room deleted from the registry detaches the iterators walking its set.
Detach(f, ac1) ==
    IF f.status = "sending" /\ f.live /\ ~f.detached /\ f.board \notin DOMAIN ac1
    THEN [f EXCEPT !.detached = TRUE] ELSE f

\* The way on as it would be if the receive loop ended after one handler.
AfterReturnEndsLoop(cont) ==
    CASE cont = "join" -> "recv"
      [] cont = "handler" -> "closed"
      [] cont = "left" -> "closed"
      [] OTHER -> "idle"

\* Where the caller goes on when broadcast_to_room (or, in the receive loop,
\* send_personal_message) returns.
AfterReturn(cont) ==
    CASE cont = "join" -> "recv"
      [] cont = "handler" -> "recv"
      [] cont = "left" -> "closed"
      [] OTHER -> "idle"

\* Where the caller goes on when broadcast_to_room raises: update_node and the
\* direct caller catch the error; out of the endpoint's except branch (or out
\* of connect) it ends the endpoint.
AfterRaise(cont) ==
    CASE cont = "rest" -> "idle"
      [] cont = "api" -> "idle"
      [] OTHER -> "crashed"

SetReg(reg) ==
    /\ active_connections' = reg.ac
    /\ connection_boards' = reg.cb
    /\ connection_users' = reg.cu

\* Task t, inside broadcast_to_room with locals f, the registry at reg and the
\* history of joins at j, runs to its next await: the iterator's next(), then
\* either the send to the connection it yields (where t suspends), or the
\* cleanup loop and the return, or the RuntimeError leaving the call.
RunToAwait(t, f, reg, j) ==
    \E o \in SetNext(f, reg.ac) :
        LET reg1 == IF o.kind = "stop" THEN DisconnectAll(reg, f.disconnected) ELSE reg
            f1 == CASE o.kind = "yield" ->
                         [f EXCEPT !.status = "sending", !.cur = o.conn,
                                   !.visited = @ \cup {o.conn}]
                     [] o.kind = "stop" -> [f EXCEPT !.status = "returned", !.cur = None]
                     [] OTHER -> [f EXCEPT !.status = "raised", !.cur = None]
            gone == IF o.kind = "stop" THEN Range(f.disconnected) ELSE {}
        IN  /\ SetReg(reg1)
            /\ frame' = [u \in DOMAIN frame |->
                            IF u = t THEN f1 ELSE Detach(frame[u], reg1.ac)]
            /\ pc' = [pc EXCEPT ![t] = CASE o.kind = "yield" -> "send"
                                         [] o.kind = "stop" -> AfterReturn(f.cont)
                                         [] OTHER -> AfterRaise(f.cont)]
            /\ joined' = [b \in Boards |-> j[b] \ gone]

\* The resumption of `await connection.send_json(message)` inside the loop: the
\* send went through, or it raised and the connection is noted for cleanup.
BroadcastStep(t) ==
    /\ pc[t] = "send"
    /\ LET f == frame[t]
           c == f.cur
           ok == transport[c] = "open"
           f1 == IF ok THEN f ELSE [f EXCEPT !.disconnected = Append(@, c)]
       IN  /\ delivered' = IF ok THEN [delivered EXCEPT ![c] = Append(@, f.msg)]
                           ELSE delivered
           /\ RunToAwait(t, f1, Reg, joined)
    /\ UNCHANGED <<transport, sboard, count, boardsUsed, lastCall>>
    /\ UNCHANGED <<inboundVars, contextVars>>

\* ------------------------------------------------------------------ sessions

Tasks == DOMAIN pc

Sessions == Tasks \cap Conns

RECURSIVE Sum(_, _)
Sum(f, S) == IF S = {} THEN 0
             ELSE LET x == CHOOSE x \in S : TRUE IN f[x] + Sum(f, S \ {x})

\* manager.connect(websocket, board_id, user_info), called by task t: accept
\* (which returns only while the transport is open, and raises before anything
\* is registered otherwise), register, and the user_joined broadcast to the
\* others up to its first send.
Connect(t, ws, b, ui, cont) ==
    /\ transport[ws] = "open"
    /\ LET reg1 == ConnectReg(Reg, ws, b, ui)
       IN  RunToAwait(t, NewFrame(reg1.ac, b, UserJoined(reg1.ac, b, ws), ws, cont), reg1,
                      [joined EXCEPT ![b] = @ \cup {ws}])
    /\ boardsUsed' = boardsUsed \cup {b}

\* websocket_endpoint, from the client's handshake to the first await after
\* registration.
Open(c, b) ==
    /\ pc[c] = "new"
    /\ \A i, k \in DOMAIN ConnOrder : i < k /\ ConnOrder[k] = c => pc[ConnOrder[i]] # "new"
    /\ boardsUsed = {} => b = FirstBoard
    /\ Connect(c, c, b, None, "join")
    /\ sboard' = [sboard EXCEPT ![c] = b]
    /\ UNCHANGED <<transport, count, delivered, lastCall, inboundVars, contextVars>>

\* receive_text returns a well-formed event of a rebroadcast kind; its handler
\* starts the broadcast to the room, excluding the sender.
Receive(c, kind, payload, max) ==
    /\ pc[c] = "recv"
    /\ transport[c] = "open"
    /\ Sum(count, Sessions) < max
    /\ count' = [count EXCEPT ![c] = @ + 1]
    /\ LET msg == Event(kind, None, 0, payload, c, count[c] + 1)
       IN  RunToAwait(c, NewFrame(active_connections, sboard[c], msg, c, "handler"),
                      Reg, joined)
    /\ UNCHANGED <<transport, sboard, delivered, boardsUsed, lastCall>>
    /\ UNCHANGED <<inboundVars, contextVars>>

\* receive_text raises WebSocketDisconnect: disconnect, then the user_left
\* broadcast (no exclude) up to its first send.
RecvDisconnect(c) ==
    /\ pc[c] = "recv"
    /\ transport[c] = "closed"
    /\ LET reg1 == DisconnectReg(Reg, c)
           b == sboard[c]
       IN  RunToAwait(c, NewFrame(reg1.ac, b, UserLeft(reg1.ac, b, c), None, "left"), reg1,
                      [x \in Boards |-> joined[x] \ {c}])
    /\ UNCHANGED <<transport, sboard, count, delivered, boardsUsed, lastCall>>
    /\ UNCHANGED <<inboundVars, contextVars>>

\* The client's transport goes away (browser closed, network lost).
CloseTransport(c) ==
    /\ transport[c] = "open"
    /\ c \in Tasks => pc[c] # "new"
    /\ transport' = [transport EXCEPT ![c] = "closed"]
    /\ UNCHANGED <<active_connections, connection_boards, connection_users, pc,
                   sboard, frame, count, delivered, joined, boardsUsed, lastCall,
                   inboundVars, contextVars>>

\* The client's transport breaks while texts the client sent are still queued
\* for receive_text: from now on a send to c raises, and receive_text goes on
\* returning the queued texts.
BreakTransport(c) ==
    /\ transport[c] = "open"
    /\ c \in Tasks => pc[c] # "new"
    /\ transport' = [transport EXCEPT ![c] = "broken"]
    /\ UNCHANGED <<active_connections, connection_boards, connection_users, pc,
                   sboard, frame, count, delivered, joined, boardsUsed, lastCall,
                   inboundVars, contextVars>>

\* The queue of a broken transport is used up: the next receive_text raises
\* WebSocketDisconnect.
QueueEnds(c) ==
    /\ transport[c] = "broken"
    /\ transport' = [transport EXCEPT ![c] = "closed"]
    /\ UNCHANGED <<active_connections, connection_boards, connection_users, pc,
                   sboard, frame, count, delivered, joined, boardsUsed, lastCall,
                   inboundVars, contextVars>>

\* update_node's broadcast of node_updated to the whole room (no exclude), inside
\* its own try/except.
RestBroadcast(b, max) ==
    /\ pc[RestTask] = "idle"
    /\ count[RestTask] < max
    /\ count' = [count EXCEPT ![RestTask] = @ + 1]
    /\ LET msg == Event("node_updated", None, 0, <<"updates", "llm">>, RestTask, count[RestTask] + 1)
       IN  RunToAwait(RestTask, NewFrame(active_connections, b, msg, None, "rest"),
                      Reg, joined)
    /\ UNCHANGED <<transport, sboard, delivered, boardsUsed, lastCall>>
    /\ UNCHANGED <<inboundVars, contextVars>>

\* ------------------------------------------------------------------ inbound dispatch

\* A text receive_text returns is not JSON at all, or JSON that is no object
\* (an array, a number, a string, null), or a JSON object, which json.loads
\* turns into a dict.  Values are written as strings: "" is the empty string,
\* "0" the number zero, "{}" the empty object, None an absent key or null.
Malformed == [form |-> "malformed", obj |-> Empty]

NotAnObject == [form |-> "value", obj |-> Empty]

Object(d) == [form |-> "object", obj |-> d]

\* message.get(key)
Get(message, key) == IF key \in DOMAIN message THEN message[key] ELSE None

\* message.get(key, default)
GetOr(message, key, default) == IF key \in DOMAIN message THEN message[key] ELSE default

\* Python's `not v`
Falsy(v) == v \in {None, "", "0", "{}"}

\* What the dispatch of one text comes to: nothing (the handler returned
\* early), a broadcast to the room excluding the sender, preceded by the
\* storage requests in store, or an error event for the sender alone.
Drop == [kind |-> "drop", type |-> None, payload |-> <<>>, store |-> <<>>]

Rebroadcast(type, payload, store) ==
    [kind |-> "broadcast", type |-> type, payload |-> payload, store |-> store]

Reply(text) == [kind |-> "reply", type |-> "error", payload |-> <<"message">> \o text,
                store |-> <<>>]

\* handle_node_moved as it would be if it echoed the coordinates the wrong way
\* round.
handle_node_moved_swapped(board_id, message) ==
    LET node_id == Get(message, "node_id")
        x == Get(message, "x")
        y == Get(message, "y")
    IN  IF Falsy(node_id) \/ x = None \/ y = None THEN Drop
        ELSE Rebroadcast("node_moved", <<"node_id", node_id, "x", y, "y", x>>,
                         <<[table |-> "nodes", id |-> node_id, board_id |-> board_id,
                            x |-> x, y |-> y]>>)

handle_node_moved(board_id, message) ==
    LET node_id == Get(message, "node_id")
        x == Get(message, "x")
        y == Get(message, "y")
    IN  IF Falsy(node_id) \/ x = None \/ y = None THEN Drop
        ELSE Rebroadcast("node_moved", <<"node_id", node_id, "x", x, "y", y>>,
                         <<[table |-> "nodes", id |-> node_id, board_id |-> board_id,
                            x |-> x, y |-> y]>>)

handle_node_created(board_id, message) ==
    LET node_data == Get(message, "node_data")
    IN  IF Falsy(node_data) THEN Drop
        ELSE Rebroadcast("node_created", <<"node_data", node_data>>, <<>>)

handle_node_updated(board_id, message) ==
    LET node_id == Get(message, "node_id")
        updates == GetOr(message, "updates", "{}")
    IN  IF Falsy(node_id) THEN Drop
        ELSE Rebroadcast("node_updated", <<"node_id", node_id, "updates", updates>>, <<>>)

handle_node_deleted(board_id, message) ==
    LET node_id == Get(message, "node_id")
    IN  IF Falsy(node_id) THEN Drop
        ELSE Rebroadcast("node_deleted", <<"node_id", node_id>>, <<>>)

handle_edge_created(board_id, message) ==
    LET edge_data == Get(message, "edge_data")
    IN  IF Falsy(edge_data) THEN Drop
        ELSE Rebroadcast("edge_created", <<"edge_data", edge_data>>, <<>>)

handle_edge_deleted(board_id, message) ==
    LET edge_id == Get(message, "edge_id")
    IN  IF Falsy(edge_id) THEN Drop
        ELSE Rebroadcast("edge_deleted", <<"edge_id", edge_id>>, <<>>)

handle_cursor_moved(board_id, message) ==
    LET cursor_data == Get(message, "cursor_data")
    IN  IF Falsy(cursor_data) THEN Drop
        ELSE Rebroadcast("cursor_moved", <<"cursor_data", cursor_data>>, <<>>)

\* The except branch of json.JSONDecodeError as it would be with no reply.
InvalidJsonIgnored == Drop

\* except json.JSONDecodeError
InvalidJson == Reply(<<"Invalid JSON">>)

\* The else branch of the dispatch as it would be if it passed the event on to
\* the room.
UnknownTypeEchoed(message_type) ==
    Rebroadcast(message_type, <<"message", "Unknown message type: ", message_type>>, <<>>)

\* The else branch of the dispatch: f"Unknown message type: {message_type}"
UnknownType(message_type) == Reply(<<"Unknown message type: ", message_type>>)

\* The body of the receive loop for one text: json.loads, message.get("type")
\* (an AttributeError for what is no dict, caught by `except Exception`), and
\* the if/elif chain.
Dispatch(board_id, data) ==
    IF data.form = "malformed" THEN InvalidJson
    ELSE IF data.form # "object" THEN Reply(<<"AttributeError">>)
    ELSE LET message == data.obj
             message_type == Get(message, "type")
         IN  CASE message_type = "node_moved" -> handle_node_moved(board_id, message)
               [] message_type = "node_created" -> handle_node_created(board_id, message)
               [] message_type = "node_updated" -> handle_node_updated(board_id, message)
               [] message_type = "node_deleted" -> handle_node_deleted(board_id, message)
               [] message_type = "edge_created" -> handle_edge_created(board_id, message)
               [] message_type = "edge_deleted" -> handle_edge_deleted(board_id, message)
               [] message_type = "cursor_moved" -> handle_cursor_moved(board_id, message)
               [] OTHER -> UnknownType(message_type)

\* One event of each kind with every key its handler reads.
FullEvent ==
    ("node_moved" :> (("type" :> "node_moved") @@ ("node_id" :> "n1") @@ ("x" :> "0")
                          @@ ("y" :> "20")))
    @@ ("node_created" :> (("type" :> "node_created") @@ ("node_data" :> "nd")))
    @@ ("node_updated" :> (("type" :> "node_updated") @@ ("node_id" :> "n1")
                              @@ ("updates" :> "up")))
    @@ ("node_deleted" :> (("type" :> "node_deleted") @@ ("node_id" :> "n1")))
    @@ ("edge_created" :> (("type" :> "edge_created") @@ ("edge_data" :> "ed")))
    @@ ("edge_deleted" :> (("type" :> "edge_deleted") @@ ("edge_id" :> "e1")))
    @@ ("cursor_moved" :> (("type" :> "cursor_moved") @@ ("cursor_data" :> "cd")))

\* The texts a client sends: malformed, not an object, without a type, with a
\* type nobody handles, and each kind in full and with one key left out.
Texts ==
    {Malformed, NotAnObject, Object("node_id" :> "n1"), Object("type" :> "ping")}
    \cup {Object(FullEvent[k]) : k \in DOMAIN FullEvent}
    \cup UNION {{Object(Remove(FullEvent[k], f)) : f \in DOMAIN FullEvent[k] \ {"type"}} :
                    k \in DOMAIN FullEvent}

\* What the client of session c sends next: anything as its first text, and
\* after that malformed text, a node_moved event or a cursor event.
TextsOf(c) ==
    IF count[c] = 0 THEN Texts
    ELSE {Malformed, Object(FullEvent["node_moved"]), Object(FullEvent["cursor_moved"])}

\* The except clause around a handler's storage request as it would be if it
\* let the exception through to the receive loop, which answers every
\* exception of a handler with an error event.
OnStoreFaultRaises(out) == Reply(<<"storage">>)

\* The except clause around a handler's storage request: the exception is
\* printed and the handler goes on as if the request had gone through.
OnStoreFault(out) == out

\* The storage requests of store as `writes` records them: with the outcome of
\* execute() and with who sent the event that caused them.
RECURSIVE Issued(_, _, _, _)
Issued(store, ok, c, seq) ==
    IF store = <<>> THEN <<>>
    ELSE <<[table |-> Head(store).table, id |-> Head(store).id,
            board_id |-> Head(store).board_id, x |-> Head(store).x, y |-> Head(store).y,
            ok |-> ok, from |-> c, seq |-> seq]>> \o Issued(Tail(store), ok, c, seq)

\* receive_text returns data on session c: the dispatch, up to the first await
\* of what it calls (the send of the error event, or the first send of the
\* rebroadcast); the storage request, when there is one, succeeds or raises (ok)
\* and is over before that.
ReceiveText(c, data, ok, max) ==
    /\ pc[c] = "recv"
    /\ transport[c] # "closed"
    /\ Sum(count, Sessions) < max
    /\ count' = [count EXCEPT ![c] = @ + 1]
    /\ inbox' = [inbox EXCEPT ![c] = Append(@, data)]
    /\ LET called == Dispatch(sboard[c], data)
           out == IF ok THEN called ELSE OnStoreFault(called)
           msg == Event(out.type, None, 0, out.payload, c, count[c] + 1)
       IN  /\ writes' = writes \o Issued(called.store, ok, c, count[c] + 1)
           /\ called.store = <<>> => ok
           /\ CASE out.kind = "broadcast" ->
                     RunToAwait(c, NewFrame(active_connections, sboard[c], msg, c, "handler"),
                                Reg, joined)
                [] out.kind = "reply" ->
                     /\ frame' = [frame EXCEPT ![c] =
                                     [NoFrame EXCEPT !.status = "unicast", !.board = sboard[c],
                                                     !.msg = msg, !.cur = c, !.cont = "handler"]]
                     /\ pc' = [pc EXCEPT ![c] = "reply"]
                     /\ UNCHANGED <<active_connections, connection_boards, connection_users,
                                    joined>>
                [] OTHER ->
                     /\ frame' = [frame EXCEPT ![c] =
                                     [NoFrame EXCEPT !.status = "dropped", !.board = sboard[c],
                                                     !.msg = msg, !.cont = "handler"]]
                     /\ UNCHANGED <<active_connections, connection_boards, connection_users,
                                    joined, pc>>
    /\ UNCHANGED <<transport, sboard, delivered, boardsUsed, lastCall, contextVars>>

\* The resumption of `await websocket.send_json(message)` inside
\* send_personal_message, called by the receive loop of session c for c itself:
\* the error event is sent, or the send raised and c is disconnected; either way
\* the loop goes on to its next receive_text.
ReplyStep(c) ==
    /\ pc[c] = "reply"
    /\ LET f == frame[c]
           sent == transport[c] = "open"
           reg1 == SendPersonalReg(Reg, c, sent)
       IN  /\ delivered' = IF sent THEN [delivered EXCEPT ![c] = Append(@, f.msg)]
                           ELSE delivered
           /\ SetReg(reg1)
           /\ frame' = [u \in DOMAIN frame |->
                           IF u = c THEN [f EXCEPT !.status = "replied", !.cur = None,
                                                   !.visited = {c},
                                                   !.disconnected = IF sent THEN <<>> ELSE <<c>>]
                           ELSE Detach(frame[u], reg1.ac)]
           /\ joined' = IF c \in DOMAIN reg1.cb THEN joined
                        ELSE [b \in Boards |-> joined[b] \ {c}]
    /\ pc' = [pc EXCEPT ![c] = AfterReturn(frame[c].cont)]
    /\ UNCHANGED <<transport, sboard, count, boardsUsed, lastCall, inboundVars, contextVars>>

\* ------------------------------------------------------------------ the manager's API, called directly

\* What lastCall records: the method, the connection it was called for, and
\* whether that connection was registered when the call was made.
Call(op, ws) == [op |-> op, ws |-> ws, registered |-> ws \in DOMAIN connection_boards]

\* await manager.connect(ws, b, ui), for any connection, registered or not
ApiConnect(ws, b, ui, max) ==
    /\ pc[ApiTask] = "idle"
    /\ count[ApiTask] < max
    /\ count' = [count EXCEPT ![ApiTask] = @ + 1]
    /\ Connect(ApiTask, ws, b, ui, "api")
    /\ lastCall' = Call("connect", ws)
    /\ UNCHANGED <<transport, sboard, delivered, inboundVars, contextVars>>

\* manager.disconnect(ws)
ApiDisconnect(ws, max) ==
    /\ pc[ApiTask] = "idle"
    /\ count[ApiTask] < max
    /\ count' = [count EXCEPT ![ApiTask] = @ + 1]
    /\ LET reg1 == DisconnectReg(Reg, ws)
       IN  /\ SetReg(reg1)
           /\ frame' = [u \in DOMAIN frame |-> Detach(frame[u], reg1.ac)]
    /\ joined' = [b \in Boards |-> joined[b] \ {ws}]
    /\ lastCall' = Call("disconnect", ws)
    /\ UNCHANGED <<transport, pc, sboard, delivered, boardsUsed, inboundVars, contextVars>>

\* await manager.broadcast_to_room(b, event, exclude)
ApiBroadcast(b, exclude, max) ==
    /\ pc[ApiTask] = "idle"
    /\ count[ApiTask] < max
    /\ count' = [count EXCEPT ![ApiTask] = @ + 1]
    /\ LET msg == Event("cursor_moved", None, 0, <<"cursor_data", "p">>, ApiTask, count[ApiTask] + 1)
       IN  RunToAwait(ApiTask, NewFrame(active_connections, b, msg, exclude, "api"),
                      Reg, joined)
    /\ lastCall' = Call("broadcast", None)
    /\ UNCHANGED <<transport, sboard, delivered, boardsUsed, inboundVars, contextVars>>

\* await manager.send_personal_message(event, ws): the send, and on its failure
\* the disconnect
ApiSendPersonal(ws, max) ==
    /\ pc[ApiTask] = "idle"
    /\ count[ApiTask] < max
    /\ count' = [count EXCEPT ![ApiTask] = @ + 1]
    /\ LET ok == transport[ws] = "open"
           msg == Event("error", None, 0, <<"message", "p">>, ApiTask, count[ApiTask] + 1)
           reg1 == SendPersonalReg(Reg, ws, ok)
       IN  /\ delivered' = IF ok THEN [delivered EXCEPT ![ws] = Append(@, msg)]
                           ELSE delivered
           /\ SetReg(reg1)
           /\ frame' = [u \in DOMAIN frame |-> Detach(frame[u], reg1.ac)]
           /\ joined' = IF ws \in DOMAIN reg1.cb THEN joined
                        ELSE [b \in Boards |-> joined[b] \ {ws}]
    /\ lastCall' = Call("send", ws)
    /\ UNCHANGED <<transport, pc, sboard, boardsUsed, inboundVars, contextVars>>

\* ------------------------------------------------------------------ context service

\* The rows of table "nodes" and the order in which a select returns them.
NodeIds == {"n1", "n2", "n3"}

NodeOrder == <<"n1", "n2", "n3">>

\* The ids uuid4 gives the nodes and edges the branch routes create, in the
\* order of the requests.
NewNodeIds == <<"m1", "m2", "m3", "m4", "m5", "m6">>

NewEdgeIds == <<"f1", "f2", "f3", "f4", "f5", "f6">>

\* The rows the routes may insert into table "edges": two edges into n3, one
\* from n3 back to n1, and one into n1 that belongs to the other board.
EdgeRows ==
    {[id |-> "e1", board_id |-> "b1", source_node_id |-> "n1", target_node_id |-> "n3"],
     [id |-> "e2", board_id |-> "b1", source_node_id |-> "n2", target_node_id |-> "n3"],
     [id |-> "e3", board_id |-> "b1", source_node_id |-> "n3", target_node_id |-> "n1"],
     [id |-> "e4", board_id |-> "b2", source_node_id |-> "n2", target_node_id |-> "n1"]}

\* The rows of a board whose edges close cycles: n1 and n3 are each other's
\* parent, and n2 is its own.
CycleRows ==
    {[id |-> "e1", board_id |-> "b1", source_node_id |-> "n1", target_node_id |-> "n3"],
     [id |-> "e3", board_id |-> "b1", source_node_id |-> "n3", target_node_id |-> "n1"],
     [id |-> "e5", board_id |-> "b1", source_node_id |-> "n2", target_node_id |-> "n2"]}

\* Where a storage call of update_node_context raises: nowhere, in the select
\* on edges, in the select on nodes, or in the update.
Faults == {"none", "edges", "nodes", "update"}

\* A text is the sequence of its lines (what split("\n") gives), a line the
\* sequence of the pieces it was formatted from; None is the text of no lines.
Null == <<>>

\* Python's `not text`: None or the empty string
FalsyText(text) == text = Null \/ text = << <<>> >>

\* The rows of nodes with an id in ids, as `select id, title, prompt, response,
\* context` returns them.
RowsIn(N, ids) ==
    LET found == SelectSeq(NodeOrder \o NewNodeIds, LAMBDA n : n \in ids /\ n \in DOMAIN N)
    IN  [i \in DOMAIN found |->
            [id |-> found[i], title |-> N[found[i]].title,
             prompt |-> N[found[i]].prompt, response |-> N[found[i]].response,
             context |-> N[found[i]].context]]

Rows(ids) == RowsIn(nodes, ids)

\* get_parent_nodes as it would be if the node itself always counted as
\* one of its parents.
get_parent_nodes_with_self(node_id, board_id, fault) ==
    IF fault = "edges" THEN <<>>
    ELSE LET data == {e \in edges : e.target_node_id = node_id /\ e.board_id = board_id}
             parent_ids == {e.source_node_id : e \in data} \cup {node_id}
         IN  IF data = {} THEN <<>>
             ELSE IF fault = "nodes" THEN <<>>
             ELSE Rows(parent_ids)

\* get_parent_nodes as it would be if an edge from the node to itself were
\* skipped.
get_parent_nodes_no_self(node_id, board_id, fault) ==
    IF fault = "edges" THEN <<>>
    ELSE LET data == {e \in edges : e.target_node_id = node_id /\ e.board_id = board_id}
             parent_ids == {e.source_node_id : e \in data} \ {node_id}
         IN  IF data = {} THEN <<>>
             ELSE IF fault = "nodes" THEN <<>>
             ELSE Rows(parent_ids)

\* get_parent_nodes over the rows N of nodes and E of edges.
ParentsIn(N, E, node_id, board_id, fault) ==
    IF fault = "edges" THEN <<>>
    ELSE LET data == {e \in E : e.target_node_id = node_id /\ e.board_id = board_id}
             parent_ids == {e.source_node_id : e \in data}
         IN  IF data = {} THEN <<>>
             ELSE IF fault = "nodes" THEN <<>>
             ELSE RowsIn(N, parent_ids)

get_parent_nodes(node_id, board_id, fault) == ParentsIn(nodes, edges, node_id, board_id, fault)

\* ParentParts as it would be if the parent's stored context were left out.
ParentPartsNoContext(parent) ==
    (IF ~Falsy(parent.title) THEN << <<>>, <<"[", parent.title, "]">> >> ELSE <<>>)
    \o (IF ~Falsy(parent.prompt) THEN << <<"User: ", parent.prompt>> >> ELSE <<>>)
    \o (IF ~Falsy(parent.response) THEN << <<"Assistant: ", parent.response>> >> ELSE <<>>)
    \o << <<>>, <<"--------------------------------------------------">>, <<>> >>

\* What one parent adds to context_parts, joined by "\n".
ParentParts(parent) ==
    (IF ~Falsy(parent.title) THEN << <<>>, <<"[", parent.title, "]">> >> ELSE <<>>)
    \o (IF ~Falsy(parent.prompt) THEN << <<"User: ", parent.prompt>> >> ELSE <<>>)
    \o (IF ~Falsy(parent.response) THEN << <<"Assistant: ", parent.response>> >> ELSE <<>>)
    \o (IF ~FalsyText(parent.context) THEN << <<>> >> \o parent.context ELSE <<>>)
    \o << <<>>, <<"--------------------------------------------------">>, <<>> >>

RECURSIVE AllParentParts(_)
AllParentParts(parents) ==
    IF parents = <<>> THEN <<>>
    ELSE ParentParts(Head(parents)) \o AllParentParts(Tail(parents))

\* build_context_from_parents once it has the parents
ContextOf(parents) ==
    IF parents = <<>> THEN Null
    ELSE << <<"=== Context from Parent Nodes ===">>, <<>> >>
         \o AllParentParts(parents)
         \o << <<"=================================">>, <<>> >>

build_context_from_parents(node_id, board_id, fault) ==
    ContextOf(get_parent_nodes(node_id, board_id, fault))

\* update_node_context(node_id, board_id): the context is built, written to
\* the node's row when it is not empty, and returned; an exception of the
\* update is caught and None returned.
update_node_context(node_id, board_id, fault, max) ==
    /\ ret.calls < max
    /\ LET context == build_context_from_parents(node_id, board_id, fault)
           updates == ~FalsyText(context)
           value == IF fault = "update" THEN Null ELSE context
           again == /\ ret.calls > 0 /\ ret.op = "refresh"
                    /\ ret.node = node_id /\ ret.board = board_id
                    /\ ret.fault = "none" /\ fault = "none"
                    /\ ret.seen = <<nodes, edges>>
       IN  /\ fault = "update" => updates
           /\ nodes' = IF updates /\ fault # "update" /\ node_id \in DOMAIN nodes
                       THEN [nodes EXCEPT ![node_id].context = context]
                       ELSE nodes
           /\ ret' = [calls |-> ret.calls + 1, op |-> "refresh", node |-> node_id,
                      board |-> board_id, fault |-> fault, value |-> value,
                      raised |-> FALSE, again |-> again,
                      prev |-> IF again THEN ret.value ELSE Null,
                      seen |-> <<nodes', edges>>]
    /\ UNCHANGED <<active_connections, connection_boards, connection_users, transport, pc,
                   sboard, frame, count, delivered, joined, boardsUsed, lastCall,
                   inboundVars, edges, req>>

\* The texts a client may highlight, and an id no row of nodes has.
HighlightTexts == {"h"}

NoSuchNode == "n9"

\* The rule "=" * 50.
Rule == <<"==================================================">>

\* build_context_with_highlight once it has the parent's row.
HighlightParts(parent, highlighted_text) ==
    (IF ~FalsyText(parent.context) THEN parent.context \o << <<>>, Rule, <<>> >> ELSE <<>>)
    \o (IF ~Falsy(parent.prompt) THEN << <<"Parent Node - User: ", parent.prompt>> >> ELSE <<>>)
    \o (IF ~Falsy(parent.response)
        THEN << <<"Parent Node - Assistant: ", parent.response>> >> ELSE <<>>)
    \o << <<>>, Rule, <<"=== HIGHLIGHTED TEXT (Focus on this) ===">>,
          <<"\"", highlighted_text, "\"">>, Rule, <<>> >>

\* What build_context_with_highlight(parent_node_id, highlighted_text,
\* board_id) hands to its caller: the select is not inside a try, so its
\* exception leaves the function; no row gives None; board_id is not read.
HighlightResult(parent_node_id, highlighted_text, board_id, fault) ==
    IF fault = "nodes" THEN [raised |-> TRUE, value |-> Null]
    ELSE IF parent_node_id \notin DOMAIN nodes THEN [raised |-> FALSE, value |-> Null]
    ELSE [raised |-> FALSE,
          value |-> HighlightParts(nodes[parent_node_id], highlighted_text)]

\* One call of build_context_with_highlight; it writes nothing.
build_context_with_highlight(parent_node_id, highlighted_text, board_id, fault, max) ==
    /\ ret.calls < max
    /\ LET r == HighlightResult(parent_node_id, highlighted_text, board_id, fault)
       IN  ret' = [calls |-> ret.calls + 1, op |-> "highlight", node |-> parent_node_id,
                   board |-> board_id, fault |-> fault, value |-> r.value,
                   raised |-> r.raised, again |-> FALSE, prev |-> Null,
                   seen |-> <<nodes, edges>>]
    /\ UNCHANGED <<active_connections, connection_boards, connection_users, transport, pc,
                   sboard, frame, count, delivered, joined, boardsUsed, lastCall,
                   inboundVars, nodes, edges, req>>

\* create_edge: a row of edges is inserted, not deleted.
InsertEdge(row) ==
    /\ \A e \in edges : e.id # row.id
    /\ edges' = edges \cup {[id |-> row.id, board_id |-> row.board_id,
                             source_node_id |-> row.source_node_id,
                             target_node_id |-> row.target_node_id,
                             is_deleted |-> FALSE]}
    /\ UNCHANGED <<active_connections, connection_boards, connection_users, transport, pc,
                   sboard, frame, count, delivered, joined, boardsUsed, lastCall,
                   inboundVars, nodes, ret, req>>

\* update_edge with is_deleted: the deletion flag of an edge is set or cleared.
SetEdgeDeleted(edge_id, is_deleted) ==
    /\ \E e \in edges : e.id = edge_id /\ e.is_deleted # is_deleted
    /\ edges' = {IF e.id = edge_id THEN [e EXCEPT !.is_deleted = is_deleted] ELSE e :
                    e \in edges}
    /\ UNCHANGED <<active_connections, connection_boards, connection_users, transport, pc,
                   sboard, frame, count, delivered, joined, boardsUsed, lastCall,
                   inboundVars, nodes, ret, req>>

\* ------------------------------------------------------------------ REST routes

\* A route runs from its first line to its response without an await that
\* lets another task in: the storage client is synchronous, and so is the LLM
\* client inside generate_content.  Each route is one action.  Its storage
\* calls have the outcomes given as arguments; the board exists.

\* req before any request.  Of a request it keeps the route, the status of the
\* response, the node the route created or sent to the LLM, the source node
\* and the highlighted text of a branch, the writes, refreshes and prompt
\* assemblies it made in order, each as <<call, table, id, outcome>>, and the
\* stored context the assembled prompt included.
NoReq == [n |-> 0, route |-> None, status |-> None, board |-> None, node |-> None,
          source |-> None, text |-> None, log |-> <<>>, context |-> <<>>]

\* update_node_context over the rows N and E: the rows of nodes it leaves and
\* the value it returns.
RefreshIn(N, E, node_id, board_id, fault) ==
    LET context == ContextOf(ParentsIn(N, E, node_id, board_id, fault))
        written == ~FalsyText(context) /\ fault # "update" /\ node_id \in DOMAIN N
    IN  [nodes |-> IF written THEN [N EXCEPT ![node_id].context = context] ELSE N,
         value |-> IF fault = "update" THEN Null ELSE context]

\* What ret records of a call of update_node_context a route made.
RetOf(node_id, board_id, fault, r, E) ==
    [calls |-> ret.calls + 1, op |-> "refresh", node |-> node_id, board |-> board_id,
     fault |-> fault, value |-> r.value, raised |-> FALSE, again |-> FALSE,
     prev |-> Null, seen |-> <<r.nodes, E>>]

\* highlighted_context, the context branch_highlight inserts the new node with.
HighlightedContext(highlighted_text, user_question) ==
    << <<"=== Highlighted Text from Parent Node ===">>, <<"\"", highlighted_text, "\"">>,
       <<>>, <<"=== User's Question ===">>, <<user_question>>, <<>> >>

\* The row a branch route inserts into edges; is_deleted is left to its default.
BranchEdge(edge_id, board_id, source_node_id, target_node_id) ==
    [id |-> edge_id, board_id |-> board_id, source_node_id |-> source_node_id,
     target_node_id |-> target_node_id, is_deleted |-> FALSE]

\* What the outcome of the two inserts of a branch route leaves in `nodes`
\* and in the log: a node insert that fails ends the request; an edge insert
\* that returns no data is followed by the delete of the node; an edge insert
\* that raises is caught by `except Exception` at the end of the route, after
\* which nothing more is called.
BranchInserts(id, edge_id, row, node_ok, edge_out, del_ok) ==
    IF ~node_ok
    THEN [nodes |-> nodes, log |-> << <<"insert", "nodes", id, "failed">> >>]
    ELSE CASE edge_out = "ok" ->
                [nodes |-> Put(nodes, id, row),
                 log |-> << <<"insert", "nodes", id, "ok">>,
                            <<"insert", "edges", edge_id, "ok">> >>]
           [] edge_out = "nodata" ->
                [nodes |-> IF del_ok THEN nodes ELSE Put(nodes, id, row),
                 log |-> << <<"insert", "nodes", id, "ok">>,
                            <<"insert", "edges", edge_id, "nodata">>,
                            <<"delete", "nodes", id, IF del_ok THEN "ok" ELSE "raise">> >>]
           [] OTHER ->
                [nodes |-> Put(nodes, id, row),
                 log |-> << <<"insert", "nodes", id, "ok">>,
                            <<"insert", "edges", edge_id, "raise">> >>]

\* The outcomes of the insert into edges.
EdgeOutcomes == {"ok", "nodata", "raise"}

\* POST /{board_id}/branches/highlight
branch_highlight(board_id, source_node_id, highlighted_text, user_question, auto_generate, node_ok, edge_out, del_ok, fault, llm_ok, max) ==
    /\ req.n < max
    /\ LET id == NewNodeIds[req.n + 1]
           edge_id == NewEdgeIds[req.n + 1]
           found == /\ source_node_id \in DOMAIN nodes
                    /\ nodes[source_node_id].board_id = board_id
           row == [board_id |-> board_id, title |-> "New Branch", prompt |-> user_question,
                   response |-> None,
                   context |-> HighlightedContext(highlighted_text, user_question)]
           ins == BranchInserts(id, edge_id, row, node_ok, edge_out, del_ok)
           E1 == edges \cup {BranchEdge(edge_id, board_id, source_node_id, id)}
           r == RefreshIn(ins.nodes, E1, id, board_id, fault)
           head == [n |-> req.n + 1, route |-> "branch_highlight", status |-> "404",
                    board |-> board_id, node |-> None, source |-> source_node_id,
                    text |-> highlighted_text, log |-> <<>>, context |-> Null]
           reached == [insert_edge |-> found /\ node_ok,
                       delete |-> found /\ node_ok /\ edge_out = "nodata",
                       refresh |-> found /\ node_ok /\ edge_out = "ok",
                       llm |-> found /\ node_ok /\ edge_out = "ok" /\ auto_generate]
       IN  \* an outcome is chosen only for a call the request gets to
           /\ ~found => node_ok
           /\ ~reached.insert_edge => edge_out = "ok"
           /\ ~reached.delete => del_ok
           /\ ~reached.refresh => (fault = "none" /\ ~auto_generate)
           /\ ~reached.llm => llm_ok
           /\ IF ~found
              THEN req' = head /\ UNCHANGED <<nodes, edges, ret>>
              ELSE IF ~(node_ok /\ edge_out = "ok")
              THEN /\ req' = [head EXCEPT !.status = "500", !.node = id, !.log = ins.log]
                   /\ nodes' = ins.nodes
                   /\ UNCHANGED <<edges, ret>>
              ELSE /\ edges' = E1
                   /\ ret' = RetOf(id, board_id, fault, r, E1)
                   /\ nodes' = IF auto_generate /\ llm_ok
                               THEN [r.nodes EXCEPT ![id].response = "llm"]
                               ELSE r.nodes
                   /\ req' = [head EXCEPT
                                 !.status = "200", !.node = id,
                                 !.log = ins.log \o << <<"refresh", "nodes", id, fault>> >>
                                         \o (IF auto_generate
                                             THEN << <<"prompt", "llm", id,
                                                       IF llm_ok THEN "ok" ELSE "failed">> >>
                                             ELSE <<>>),
                                 !.context = IF auto_generate THEN r.nodes[id].context ELSE Null]
    /\ UNCHANGED <<active_connections, connection_boards, connection_users, transport, pc,
                   sboard, frame, count, delivered, joined, boardsUsed, lastCall,
                   inboundVars>>

\* POST /{board_id}/branches/full
branch_full(board_id, source_node_id, node_ok, edge_out, del_ok, max) ==
    /\ req.n < max
    /\ LET id == NewNodeIds[req.n + 1]
           edge_id == NewEdgeIds[req.n + 1]
           found == /\ source_node_id \in DOMAIN nodes
                    /\ nodes[source_node_id].board_id = board_id
           row == [board_id |-> board_id, title |-> "Full branch", prompt |-> None,
                   response |-> None, context |-> Null]
           ins == BranchInserts(id, edge_id, row, node_ok, edge_out, del_ok)
           head == [n |-> req.n + 1, route |-> "branch_full", status |-> "404",
                    board |-> board_id, node |-> None, source |-> source_node_id,
                    text |-> None, log |-> <<>>, context |-> Null]
       IN  \* an outcome is chosen only for a call the request gets to
           /\ ~found => node_ok
           /\ ~(found /\ node_ok) => edge_out = "ok"
           /\ ~(found /\ node_ok /\ edge_out = "nodata") => del_ok
           /\ IF ~found
              THEN req' = head /\ UNCHANGED <<nodes, edges>>
              ELSE /\ req' = [head EXCEPT
                                 !.status = IF node_ok /\ edge_out = "ok" THEN "200" ELSE "500",
                                 !.node = id, !.log = ins.log]
                   /\ nodes' = ins.nodes
                   /\ edges' = IF node_ok /\ edge_out = "ok"
                               THEN edges \cup {BranchEdge(edge_id, board_id, source_node_id, id)}
                               ELSE edges
    /\ UNCHANGED <<active_connections, connection_boards, connection_users, transport, pc,
                   sboard, frame, count, delivered, joined, boardsUsed, lastCall,
                   inboundVars, ret>>

\* PATCH /{board_id}/nodes/{id} with a prompt: the context is refreshed, the
\* prompt assembled and sent, and the answer stored; no room is open, so the
\* broadcast of node_updated returns at once.
update_node(board_id, id, prompt, fault, llm_ok, max) ==
    /\ req.n < max
    /\ LET found == id \in DOMAIN nodes /\ nodes[id].board_id = board_id
           r == RefreshIn(nodes, edges, id, board_id, fault)
           head == [n |-> req.n + 1, route |-> "update_node", status |-> "404",
                    board |-> board_id, node |-> id, source |-> None,
                    text |-> None, log |-> <<>>, context |-> Null]
       IN  /\ ~found => (fault = "none" /\ llm_ok)
           /\ IF ~found
              THEN req' = head /\ UNCHANGED <<nodes, ret>>
              ELSE /\ ret' = RetOf(id, board_id, fault, r, edges)
                   /\ nodes' = IF llm_ok
                               THEN [r.nodes EXCEPT ![id].prompt = prompt, ![id].response = "llm"]
                               ELSE r.nodes
                   /\ req' = [head EXCEPT
                                 !.status = IF llm_ok THEN "200" ELSE "500",
                                 !.log = << <<"refresh", "nodes", id, fault>>,
                                            <<"prompt", "llm", id,
                                              IF llm_ok THEN "ok" ELSE "failed">> >>
                                         \o (IF llm_ok THEN << <<"update", "nodes", id, "ok">> >>
                                             ELSE <<>>),
                                 !.context = r.nodes[id].context]
    /\ UNCHANGED <<active_connections, connection_boards, connection_users, transport, pc,
                   sboard, frame, count, delivered, joined, boardsUsed, lastCall,
                   inboundVars, edges>>

\* POST /generate: llm_service.generate_content and nothing else.  A node
\* without a row gives success = False before any prompt is assembled.
generate_content(node_id, llm_ok, max) ==
    /\ req.n < max
    /\ LET found == node_id \in DOMAIN nodes
       IN  /\ ~found => llm_ok
           /\ req' = [n |-> req.n + 1, route |-> "generate", status |-> "200",
                       board |-> None, node |-> node_id, source |-> None, text |-> None,
                       log |-> IF found
                               THEN << <<"prompt", "llm", node_id,
                                         IF llm_ok THEN "ok" ELSE "failed">> >>
                               ELSE <<>>,
                       context |-> IF found THEN nodes[node_id].context ELSE Null]
    /\ UNCHANGED <<active_connections, connection_boards, connection_users, transport, pc,
                   sboard, frame, count, delivered, joined, boardsUsed, lastCall,
                   inboundVars, nodes, edges, ret>>

\* ------------------------------------------------------------------ specifications

\* ret before a context operation was ever called.  Of a call it keeps the
\* operation, its arguments, where storage failed, the value returned, whether
\* an exception left the operation instead, the storage as the call left it
\* and, when the call repeats the one before it on an unchanged storage, the
\* value that one returned.
NoRet == [calls |-> 0, op |-> None, node |-> None, board |-> None, fault |-> None,
          value |-> <<>>, raised |-> FALSE, again |-> FALSE, prev |-> <<>>,
          seen |-> <<>>]

\* The manager and the endpoints before any handshake.
InitChannel(tasks) ==
    /\ active_connections = Empty
    /\ connection_boards = Empty
    /\ connection_users = Empty
    /\ transport = [c \in Conns |-> "open"]
    /\ pc = [t \in tasks |-> IF t \in Conns THEN "new" ELSE "idle"]
    /\ sboard = [t \in tasks |-> None]
    /\ frame = [t \in tasks |-> NoFrame]
    /\ count = [t \in tasks |-> 0]
    /\ delivered = [c \in Conns |-> <<>>]
    /\ joined = [b \in Boards |-> {}]
    /\ boardsUsed = {}
    /\ lastCall = [op |-> None, ws |-> None, registered |-> FALSE]
    /\ inbox = [t \in tasks |-> <<>>]
    /\ writes = <<>>

\* The channel alone: the storage holds nothing the channel reads.
InitFor(tasks) ==
    /\ InitChannel(tasks)
    /\ nodes = Empty
    /\ edges = {}
    /\ ret = NoRet
    /\ req = NoReq

\* The collaboration channel: three sessions.
Init == InitFor(Conns)

Next ==
    \/ \E c \in Conns, b \in Boards : Open(c, b)
    \/ \E c \in Conns, k \in Kinds : Receive(c, k, <<"cursor_data", "p">>, MaxEvents)
    \/ \E c \in Conns : RecvDisconnect(c)
    \/ \E c \in Conns : CloseTransport(c)
    \/ \E c \in Conns : BroadcastStep(c)

Spec == Init /\ [][Next]_vars

\* Two sessions on one board, with more events each.
InitOrder == InitFor({"A", "B"})

NextOrder ==
    \/ \E c \in Sessions : Open(c, FirstBoard)
    \/ \E c \in Sessions, k \in Kinds : Receive(c, k, <<"cursor_data", "p">>, MaxOrderEvents)
    \/ \E c \in Sessions : RecvDisconnect(c)
    \/ \E c \in Sessions : CloseTransport(c)
    \/ \E c \in Sessions : BroadcastStep(c)

SpecOrder == InitOrder /\ [][NextOrder]_vars

\* Two sessions and the REST route update_node.
InitRest == InitFor({"A", "B", RestTask})

NextRest ==
    \/ \E c \in Sessions, b \in Boards : Open(c, b)
    \/ \E c \in Sessions : RecvDisconnect(c)
    \/ \E c \in Sessions : CloseTransport(c)
    \/ \E b \in Boards : RestBroadcast(b, MaxRest)
    \/ \E t \in Tasks : BroadcastStep(t)

SpecRest == InitRest /\ [][NextRest]_vars

\* Two sessions on one board and everything a client can send.
InitDispatch == InitFor({"A", "B"})

NextDispatch ==
    \/ \E c \in Sessions : Open(c, FirstBoard)
    \/ \E c \in Sessions : \E data \in TextsOf(c), ok \in BOOLEAN :
           ReceiveText(c, data, ok, MaxInbound)
    \/ \E c \in Sessions : ReplyStep(c)
    \/ \E c \in Sessions : RecvDisconnect(c)
    \/ \E c \in Sessions : CloseTransport(c)
    \/ \E c \in Sessions : BroadcastStep(c)

SpecDispatch == InitDispatch /\ [][NextDispatch]_vars

\* The context service over a storage of three nodes whose edges come and go.
InitContext ==
    /\ InitChannel({})
    /\ nodes = [n \in NodeIds |->
                   CASE n = "n1" -> [board_id |-> "b1", title |-> "T1", prompt |-> "p1",
                                     response |-> "r1", context |-> Null]
                     [] n = "n2" -> [board_id |-> "b1", title |-> "", prompt |-> "p2",
                                     response |-> None, context |-> Null]
                     [] OTHER -> [board_id |-> "b1", title |-> "T3", prompt |-> None,
                                  response |-> "r3", context |-> Null]]
    /\ edges = {}
    /\ ret = NoRet
    /\ req = NoReq

NextContext ==
    \/ \E row \in EdgeRows : InsertEdge(row)
    \/ \E row \in EdgeRows, d \in BOOLEAN : SetEdgeDeleted(row.id, d)
    \/ \E n \in NodeIds, b \in Boards, fault \in Faults :
           update_node_context(n, b, fault, MaxRefresh)

SpecContext == InitContext /\ [][NextContext]_vars

\* The context operations called again and again over a board with cycles.
InitRefresh == InitContext

NextRefresh ==
    \/ \E row \in CycleRows : InsertEdge(row)
    \/ \E n \in NodeIds, fault \in Faults :
           update_node_context(n, FirstBoard, fault, MaxRepeat)
    \/ \E p \in NodeIds \cup {NoSuchNode}, h \in HighlightTexts, fault \in {"none", "nodes"} :
           build_context_with_highlight(p, h, FirstBoard, fault, MaxRepeat)

SpecRefresh == InitRefresh /\ [][NextRefresh]_vars

\* Two sessions on one board whose transports may break with texts still queued.
InitEvicted == InitFor({"A", "B"})

NextEvicted ==
    \/ \E c \in Sessions : Open(c, FirstBoard)
    \/ \E c \in Sessions :
           ReceiveText(c, Object(FullEvent["cursor_moved"]), TRUE, MaxQueued)
    \/ \E c \in Sessions : BreakTransport(c)
    \/ \E c \in Sessions : QueueEnds(c)
    \/ \E c \in Sessions : CloseTransport(c)
    \/ \E c \in Sessions : RecvDisconnect(c)
    \/ \E c \in Sessions : BroadcastStep(c)

SpecEvicted == InitEvicted /\ [][NextEvicted]_vars

\* The REST routes that create branches and call the LLM, over the storage
\* of three nodes.
InitRoutes == InitContext

NextRoutes ==
    \/ \E row \in {e \in EdgeRows : e.target_node_id = "n3"} : InsertEdge(row)
    \/ \E src \in {"n1", NoSuchNode}, auto \in BOOLEAN, node_ok \in BOOLEAN,
          edge_out \in EdgeOutcomes, del_ok \in BOOLEAN, fault \in Faults, llm_ok \in BOOLEAN :
           branch_highlight(FirstBoard, src, "h", "q", auto, node_ok, edge_out, del_ok,
                            fault, llm_ok, MaxRequests)
    \/ \E src \in {"n1", NoSuchNode}, node_ok \in BOOLEAN, edge_out \in EdgeOutcomes,
          del_ok \in BOOLEAN :
           branch_full(FirstBoard, src, node_ok, edge_out, del_ok, MaxRequests)
    \/ \E id \in {"n3", NoSuchNode}, fault \in Faults, llm_ok \in BOOLEAN :
           update_node(FirstBoard, id, "q", fault, llm_ok, MaxRequests)
    \/ \E id \in {"n3", NoSuchNode}, llm_ok \in BOOLEAN :
           generate_content(id, llm_ok, MaxRequests)

SpecRoutes == InitRoutes /\ [][NextRoutes]_vars

\* One caller of the manager's methods, one call at a time, in any order and
\* with any arguments.
InitApi == InitFor({ApiTask})

NextApi ==
    \/ \E ws \in Conns, b \in Boards, ui \in UserInfos : ApiConnect(ws, b, ui, MaxCalls)
    \/ \E ws \in Conns : ApiDisconnect(ws, MaxCalls)
    \/ \E b \in Boards, ex \in Conns \cup {None} : ApiBroadcast(b, ex, MaxCalls)
    \/ \E ws \in Conns : ApiSendPersonal(ws, MaxCalls)
    \/ \E ws \in Conns : CloseTransport(ws)
    \/ BroadcastStep(ApiTask)

SpecApi == InitApi /\ [][NextApi]_vars

\* ------------------------------------------------------------------ properties

\* How many times event m has been sent to connection c.
Times(c, m) == Cardinality({i \in DOMAIN delivered[c] : delivered[c][i] = m})

\* The connections a finished or running broadcast was meant for.
Meant(f) == f.room \ {f.exclude}

\* C1: while connect has been called for one board only, get_room_size of every
\* board is the number of connections that called connect and have not called
\* disconnect since (evictions included), and a board nobody is left in has no
\* entry in active_connections.
C1_RoomSizeIsNetJoins ==
    Cardinality(boardsUsed) <= 1 =>
        \A b \in Boards :
            /\ get_room_size(b) = Cardinality(joined[b])
            /\ joined[b] = {} => b \notin DOMAIN active_connections

\* Connections joined the one board in use and all have left again, the last
\* of them by a call of disconnect.
C1_Witness ==
    /\ boardsUsed = {FirstBoard}
    /\ count[ApiTask] >= 3
    /\ joined[FirstBoard] = {}
    /\ lastCall.op = "disconnect" /\ lastCall.registered
    /\ FirstBoard \notin DOMAIN active_connections

\* C2: a broadcast with an exclude sends its event at most once to each member
\* the room had when it was called, except the excluded one, and to nobody
\* else; when it has returned and no send failed, exactly once to each of them.
C2_ExcludeBroadcastExactlyOnce ==
    \A t \in Tasks :
        LET f == frame[t]
        IN  f.exclude # None /\ f.status \in {"absent", "sending", "returned"} =>
                \A c \in Conns :
                    /\ Times(c, f.msg) <= (IF c \in Meant(f) THEN 1 ELSE 0)
                    /\ (f.status = "returned" /\ f.disconnected = <<>> /\ c \in Meant(f))
                           => Times(c, f.msg) = 1

\* A's event has gone to B and to C, once each, in a room of all three, and the
\* broadcast has returned with no send failed.
C2_Witness ==
    /\ frame["A"].status = "returned" /\ frame["A"].cont = "handler"
    /\ frame["A"].room = Conns /\ frame["A"].exclude = "A"
    /\ frame["A"].disconnected = <<>>
    /\ Times("B", frame["A"].msg) = 1 /\ Times("C", frame["A"].msg) = 1
    /\ Times("A", frame["A"].msg) = 0

\* C3 (as claimed): a broadcast in which a send failed never ends in an error;
\* when it has returned every connection it was meant for has been sent the
\* event or has failed, and those that failed are no longer in the room.
C3_FailedSendDoesNotStopBroadcast ==
    \A t \in Tasks :
        LET f == frame[t]
        IN  f.disconnected # <<>> =>
                /\ f.status # "raised"
                /\ f.status = "returned" =>
                       /\ \A c \in Meant(f) :
                              c \in Range(f.disconnected) \/ Times(c, f.msg) = 1
                       /\ \A c \in Range(f.disconnected) :
                              f.board \in DOMAIN active_connections
                                  => c \notin active_connections[f.board]

\* C4: no board of active_connections maps to an empty set.
C4_NoEmptyRoom ==
    \A b \in DOMAIN active_connections : active_connections[b] # {}

\* A session has ended, its board's room is gone, and another room is there.
C4_Witness ==
    \E c \in Sessions :
        /\ pc[c] = "closed"
        /\ sboard[c] \notin DOMAIN active_connections
        /\ DOMAIN active_connections # {}

\* C5 (as claimed): a connection is in the member set of no room but the one
\* connection_boards records for it.
C5_OneRoomPerConnection ==
    \A c \in Conns : \A b \in DOMAIN active_connections :
        c \in active_connections[b] =>
            c \in DOMAIN connection_boards /\ connection_boards[c] = b

\* C6: the user_joined event of a join carries the joined board and the size of
\* the room with the joiner in it; it is sent to nobody but the members the room
\* had before, never to the joiner, and when the join's broadcast has returned
\* each of those members has been sent it or has failed.
C6_UserJoinedToOthers ==
    \A t \in Tasks :
        LET f == frame[t]
            who == f.msg.from
        IN  f.msg.type = "user_joined" /\ f.status \in {"sending", "returned"} =>
                /\ f.msg.board = f.board
                /\ who \in f.room
                /\ f.msg.user_count = Cardinality(f.room)
                /\ \A c \in Conns :
                       Times(c, f.msg) <= (IF c \in f.room \ {who} THEN 1 ELSE 0)
                /\ f.status = "returned" =>
                       \A c \in f.room \ {who} :
                           Times(c, f.msg) = 1 \/ c \in Range(f.disconnected)

\* C joined a room of A and B: both were sent user_joined with user_count 3, and
\* C was not.
C6_Witness ==
    /\ frame["C"].status = "returned" /\ frame["C"].msg.type = "user_joined"
    /\ frame["C"].room = Conns /\ frame["C"].msg.user_count = 3
    /\ Times("A", frame["C"].msg) = 1 /\ Times("B", frame["C"].msg) = 1
    /\ Times("C", frame["C"].msg) = 0

\* C7 (as claimed): once the endpoint of a session whose connection was removed
\* has ended, its user_left event, carrying the size of the room without it, has
\* been sent to every member that was left in the room.
C7_UserLeftToAllRemaining ==
    \A c \in Sessions :
        pc[c] \in {"closed", "crashed"} =>
            LET f == frame[c]
            IN  /\ f.msg.type = "user_left"
                /\ f.msg.user_count = Cardinality(f.room)
                /\ f.room \subseteq f.visited

\* C8: disconnect for a connection that is not registered leaves the three maps
\* as they are, and a second disconnect right after a first changes nothing.
C8_DisconnectIdempotent ==
    \A ws \in Conns :
        LET once == DisconnectReg(Reg, ws)
        IN  /\ ws \notin DOMAIN connection_boards => once = Reg
            /\ DisconnectReg(once, ws) = once

\* disconnect has just been called for a connection that was not registered,
\* while other connections are.
C8_Witness ==
    /\ lastCall.op = "disconnect" /\ ~lastCall.registered
    /\ DOMAIN connection_boards # {}

\* C9: in what has been sent to one recipient, the events one sender submitted
\* appear in the order of their submission, each once.
C9_SenderOrderKept ==
    \A r \in Conns : \A i, k \in DOMAIN delivered[r] :
        (/\ i < k
         /\ delivered[r][i].from = delivered[r][k].from
         /\ delivered[r][i].seq > 0 /\ delivered[r][k].seq > 0)
            => delivered[r][i].seq < delivered[r][k].seq

\* B has been sent two events of A, and between them A was sent one of B's.
C9_Witness ==
    /\ \E i, k \in DOMAIN delivered["B"] :
           /\ i < k
           /\ delivered["B"][i].from = "A" /\ delivered["B"][i].seq = 1
           /\ delivered["B"][k].from = "A" /\ delivered["B"][k].seq = 2
    /\ \E i \in DOMAIN delivered["A"] : delivered["A"][i].from = "B"
    /\ count["A"] = 2 /\ count["B"] = 1
    /\ pc["A"] = "recv"

\* C10 (as claimed): no broadcast ends in an error, and one that has returned
\* has reached every connection it was meant for that is still in the room.
C10_BroadcastSurvivesLeaveAndJoin ==
    \A t \in Tasks :
        LET f == frame[t]
        IN  /\ f.status # "raised"
            /\ f.status = "returned" /\ f.board \in DOMAIN active_connections
                   => (Meant(f) \cap active_connections[f.board]) \subseteq f.visited

\* The state of session c's endpoint: CONNECTING until manager.connect has
\* returned, OPEN while it is in its receive loop, CLOSED once receive_text has
\* raised WebSocketDisconnect (and after the endpoint has ended).
SessionState(c) ==
    CASE pc[c] = "new" -> "CONNECTING"
      [] pc[c] = "send" /\ frame[c].cont = "join" -> "CONNECTING"
      [] pc[c] \in {"recv", "reply"} -> "OPEN"
      [] pc[c] = "send" /\ frame[c].cont = "handler" -> "OPEN"
      [] OTHER -> "CLOSED"

\* Where in delivered[r] the events caused by the s-th text of session c are.
Caused(r, c, s) ==
    {i \in DOMAIN delivered[r] : delivered[r][i].from = c /\ delivered[r][i].seq = s}

\* The s-th text of session c is answered by an error event for c alone: nobody
\* else is sent anything for it, storage is asked nothing, c is sent at most one
\* event for it, an error event, and exactly one once the reply is over and c's
\* transport is open.
AnsweredByErrorOnly(c, s) ==
    /\ \A r \in Conns \ {c} : Caused(r, c, s) = {}
    /\ \A w \in Range(writes) : ~(w.from = c /\ w.seq = s)
    /\ \A i \in Caused(c, c, s) : delivered[c][i].type = "error"
    /\ Cardinality(Caused(c, c, s)) <= 1
    /\ (transport[c] = "open" /\ ~(pc[c] = "reply" /\ count[c] = s))
           => Cardinality(Caused(c, c, s)) = 1

\* C11: a session leaves OPEN only when its receive_text raises the disconnect
\* of a closed transport, and then it is CLOSED; a CLOSED session stays CLOSED.
\* No text it receives, whatever the dispatch, the storage or the sends do
\* with it, takes it out of OPEN.
C11_OnlyDisconnectClosesSession ==
    [][\A c \in Sessions :
          /\ (SessionState(c) = "OPEN" /\ SessionState(c)' # "OPEN")
                 => /\ pc[c] = "recv" /\ transport[c] = "closed"
                    /\ SessionState(c)' = "CLOSED"
          /\ SessionState(c) = "CLOSED" => SessionState(c)' = "CLOSED"]_vars

\* A received JSON that is no object and then malformed text; the send of the
\* second error reply failed and A was disconnected by it, and A's loop is at
\* its receive_text again.
C11_Witness ==
    /\ inbox["A"] = <<NotAnObject, Malformed>>
    /\ pc["A"] = "recv"
    /\ frame["A"].status = "replied" /\ frame["A"].disconnected = <<"A">>
    /\ "A" \notin DOMAIN connection_boards

\* C12: a text that is not JSON is answered by one error event to its sender
\* and by nothing else, and the event of any kind that the sender submits next
\* is rebroadcast to the others of the room, once each when no send fails.
C12_MalformedJsonAnswered ==
    \A c \in Sessions : \A s \in DOMAIN inbox[c] :
        inbox[c][s] = Malformed =>
            /\ AnsweredByErrorOnly(c, s)
            /\ \A i \in Caused(c, c, s) :
                   delivered[c][i].payload = <<"message", "Invalid JSON">>
            /\ \A k \in DOMAIN FullEvent :
                   (count[c] = s + 1 /\ inbox[c][s + 1] = Object(FullEvent[k])
                       /\ SessionState(c) = "OPEN") =>
                       LET f == frame[c]
                       IN  /\ f.msg.type = k /\ f.msg.seq = s + 1 /\ f.exclude = c
                           /\ f.status \in {"sending", "returned"}
                           /\ (f.status = "returned" /\ f.disconnected = <<>>)
                                  => \A r \in Meant(f) : Times(r, f.msg) = 1

\* A sent malformed text and then a node_moved event: A has been sent one
\* error event, B the node_moved event and no error event.
C12_Witness ==
    /\ inbox["A"] = <<Malformed, Object(FullEvent["node_moved"])>>
    /\ frame["A"].status = "returned" /\ frame["A"].room = {"A", "B"}
    /\ Times("B", frame["A"].msg) = 1
    /\ Cardinality(Caused("A", "A", 1)) = 1
    /\ \A i \in DOMAIN delivered["B"] : delivered["B"][i].type # "error"

\* C13: an object whose type is none of the seven kinds (or is absent) is
\* answered by one error event to its sender; it is sent to no other member and
\* causes no storage request.
C13_UnknownTypeAnswered ==
    \A c \in Sessions : \A s \in DOMAIN inbox[c] :
        (inbox[c][s].form = "object"
            /\ Get(inbox[c][s].obj, "type") \notin
                   {"node_moved", "node_created", "node_updated", "node_deleted",
                    "edge_created", "edge_deleted", "cursor_moved"})
            => AnsweredByErrorOnly(c, s)

\* A, in a room with B, sent an object without a type: A has been sent its one
\* error event and B nothing of A's.
C13_Witness ==
    /\ inbox["A"] = <<Object("node_id" :> "n1")>>
    /\ pc["A"] = "recv" /\ frame["A"].status = "replied"
    /\ FirstBoard \in DOMAIN active_connections
    /\ active_connections[FirstBoard] = {"A", "B"}
    /\ Cardinality(Caused("A", "A", 1)) = 1
    /\ Caused("B", "A", 1) = {}

\* C14 (as claimed): an event of a recognized kind that lacks one of the fields
\* required for its kind is sent to nobody, the sender included, and causes no
\* storage request.
C14_MissingFieldDropped ==
    LET required == ("node_moved" :> {"node_id", "x", "y"})
                    @@ ("node_created" :> {"node_data"})
                    @@ ("node_updated" :> {"node_id", "updates"})
                    @@ ("node_deleted" :> {"node_id"})
                    @@ ("edge_created" :> {"edge_data"})
                    @@ ("edge_deleted" :> {"edge_id"})
                    @@ ("cursor_moved" :> {"cursor_data"})
    IN  \A c \in Sessions : \A s \in DOMAIN inbox[c] :
            LET d == inbox[c][s].obj
                k == Get(d, "type")
            IN  (inbox[c][s].form = "object" /\ k \in DOMAIN required
                    /\ ~(required[k] \subseteq DOMAIN d))
                    => /\ \A r \in Conns : Caused(r, c, s) = {}
                       /\ \A w \in Range(writes) : ~(w.from = c /\ w.seq = s)

\* C15: a node_moved event is sent only to others than its sender, with the
\* node id and the coordinates of the text that caused it, and only after the
\* update of that node's x and y, scoped to the sender's board, was issued to
\* storage; when its broadcast has returned and no send failed, every other
\* member the room had was sent it once.
C15_NodeMovedStoredThenEchoed ==
    /\ \A r \in Conns : \A i \in DOMAIN delivered[r] :
           LET e == delivered[r][i]
           IN  e.type = "node_moved" =>
                   LET c == e.from
                       d == inbox[c][e.seq].obj
                   IN  /\ r # c
                       /\ e.payload = <<"node_id", d["node_id"], "x", d["x"], "y", d["y"]>>
                       /\ \E w \in Range(writes) :
                              /\ w.from = c /\ w.seq = e.seq
                              /\ w.table = "nodes" /\ w.id = d["node_id"]
                              /\ w.board_id = sboard[c]
                              /\ w.x = d["x"] /\ w.y = d["y"]
    /\ \A c \in Sessions :
           LET f == frame[c]
           IN  f.msg.type = "node_moved" =>
                   /\ \E w \in Range(writes) : w.from = c /\ w.seq = f.msg.seq
                   /\ (f.status = "returned" /\ f.disconnected = <<>>)
                          => \A r \in Meant(f) : Times(r, f.msg) = 1

\* A moved node n1 to (0, 20) in a room with B: the update was issued, B was
\* sent node_moved with n1, 0 and 20, and A was sent nothing of it.
C15_Witness ==
    /\ inbox["A"] = <<Object(FullEvent["node_moved"])>>
    /\ frame["A"].status = "returned" /\ frame["A"].room = {"A", "B"}
    /\ \E i \in DOMAIN delivered["B"] :
           /\ delivered["B"][i].type = "node_moved"
           /\ delivered["B"][i].payload = <<"node_id", "n1", "x", "0", "y", "20">>
    /\ Caused("A", "A", 1) = {}
    /\ Len(writes) = 1 /\ writes[1].id = "n1" /\ writes[1].board_id = FirstBoard

\* C16 (as claimed): a step of a broadcast to one board (a send, and the
\* evictions of its cleanup) leaves the member set of every other board as it
\* is and sends to nobody but members of its board; a call of connect, of
\* disconnect or of send_personal_message changes the member set of one board
\* at most.
C16_RoomsIndependent ==
    [][LET RoomOf(ac, b) == IF b \in DOMAIN ac THEN ac[b] ELSE {}
       IN  /\ \A t \in Tasks :
                  (frame[t].status = "sending" /\ frame'[t] # frame[t]) =>
                      /\ \A b \in Boards \ {frame[t].board} :
                             RoomOf(active_connections', b) = RoomOf(active_connections, b)
                      /\ \A c \in Conns :
                             delivered'[c] # delivered[c] =>
                                 c \in RoomOf(active_connections, frame[t].board)
                                       \cup frame[t].room
           /\ Cardinality({b \in Boards : RoomOf(active_connections', b)
                                              # RoomOf(active_connections, b)}) <= 1]_vars

\* C17: send_personal_message returns to its caller; when the send went
\* through the three maps are as before and the event is sent; when it failed
\* nothing is sent, the target is in neither tracking map, it is out of the room
\* connection_boards had it in, that room is gone when nobody is left in it and
\* no other room is touched, which is what the cleanup of a broadcast does for a
\* connection whose send failed.
C17_SendPersonalEvicts ==
    [][LET RoomOf(ac, b) == IF b \in DOMAIN ac THEN ac[b] ELSE {}
       IN  (lastCall'.op = "send" /\ count'[ApiTask] = count[ApiTask] + 1) =>
              LET ws == lastCall'.ws
              IN  /\ pc'[ApiTask] = "idle"
                  /\ transport[ws] = "open" =>
                         /\ Reg' = Reg
                         /\ Len(delivered'[ws]) = Len(delivered[ws]) + 1
                  /\ transport[ws] # "open" =>
                         /\ delivered' = delivered
                         /\ Reg' = DisconnectAll(Reg, <<ws>>)
                         /\ ws \notin DOMAIN connection_boards'
                         /\ ws \notin DOMAIN connection_users'
                         /\ \A b \in DOMAIN active_connections' :
                                active_connections'[b] # {}
                         /\ \A b \in Boards :
                                RoomOf(active_connections', b) =
                                    IF ws \in DOMAIN connection_boards
                                           /\ connection_boards[ws] = b
                                    THEN RoomOf(active_connections, b) \ {ws}
                                    ELSE RoomOf(active_connections, b)]_vars

\* send_personal_message has just failed for a registered connection that was
\* alone in its room: the connection is in no map and the room is gone.
C17_Witness ==
    /\ lastCall.op = "send" /\ lastCall.registered
    /\ transport[lastCall.ws] = "closed"
    /\ lastCall.ws \notin DOMAIN connection_boards
    /\ active_connections = Empty
    /\ boardsUsed # {}

\* C18 (as claimed): every parent get_parent_nodes returns for a node and a
\* board is the source of an edge that targets the node within the board and
\* is not deleted.
C18_DeletedEdgesNotTraversed ==
    \A n \in NodeIds : \A b \in Boards :
        LET parents == get_parent_nodes(n, b, "none")
        IN  \A i \in DOMAIN parents :
                \E e \in edges : /\ e.target_node_id = n /\ e.board_id = b
                                 /\ ~e.is_deleted
                                 /\ e.source_node_id = parents[i].id

\* C19 (as claimed): update_node_context for a node that no edge that is not
\* deleted targets within the board returns None and leaves every row of nodes
\* as it was.
C19_NoParentsNoWrite ==
    [][ret'.calls = ret.calls + 1 =>
          LET live == {e \in edges : /\ e.target_node_id = ret'.node
                                     /\ e.board_id = ret'.board /\ ~e.is_deleted}
          IN  live = {} => ret'.value = Null /\ nodes' = nodes]_vars

\* C20 (as claimed): when the node has a parent and no storage call fails,
\* update_node_context returns the context composed from the sources of the
\* edges that target the node within the board and are not deleted, the node's
\* stored context is that value afterwards, and nothing else of table nodes has
\* changed.
C20_RefreshStoresWhatItReturns ==
    [][(ret'.calls = ret.calls + 1 /\ ret'.fault = "none") =>
          LET n == ret'.node
              live == {e \in edges : /\ e.target_node_id = n
                                     /\ e.board_id = ret'.board /\ ~e.is_deleted}
              parents == Rows({e.source_node_id : e \in live})
          IN  parents # <<>> =>
                  /\ ret'.value = ContextOf(parents)
                  /\ nodes'[n].context = ret'.value
                  /\ nodes' = [nodes EXCEPT ![n].context = ret'.value]]_vars

\* ------------------------------------------------------------------ context composition

\* sub occurs in text as a run of consecutive lines
Contains(text, sub) ==
    \E i \in 1..(Len(text) - Len(sub) + 1) : SubSeq(text, i, i + Len(sub) - 1) = sub

\* the edges of the board that lead into the node and are not deleted
LiveInto(E, node_id, board_id) ==
    {e \in E : e.target_node_id = node_id /\ e.board_id = board_id /\ ~e.is_deleted}

\* a step that is a call of update_node_context on which no storage call fails
RefreshStep == ret'.calls = ret.calls + 1 /\ ret'.op = "refresh" /\ ret'.fault = "none"

\* C21: the context update_node_context composes, returns and stores for a
\* node holds, for each of the node's parents, the parent's title line, its
\* prompt line and its response line when the parent has them, and every line
\* of the context stored for the parent, in order and unbroken.
C21_ParentContextInlined ==
    [][RefreshStep =>
          \A e \in LiveInto(edges, ret'.node, ret'.board) :
              LET P == nodes[e.source_node_id]
                  v == ret'.value
              IN  /\ ~Falsy(P.title) => Contains(v, << <<"[", P.title, "]">> >>)
                  /\ ~Falsy(P.prompt) => Contains(v, << <<"User: ", P.prompt>> >>)
                  /\ ~Falsy(P.response) => Contains(v, << <<"Assistant: ", P.response>> >>)
                  /\ Contains(v, P.context)
                  /\ nodes'[ret'.node].context = v]_vars

\* C21 witness: the node refreshed last has a parent with a stored context of
\* its own, and holds that context inside its own.
C21_Witness ==
    /\ ret.op = "refresh" /\ ret.fault = "none"
    /\ \E e \in LiveInto(edges, ret.node, ret.board) :
           /\ e.source_node_id # ret.node
           /\ nodes[e.source_node_id].context # Null
           /\ nodes[ret.node].context = ret.value
           /\ Contains(ret.value, nodes[e.source_node_id].context)

\* the board has no edge row from the node to itself
NotOwnParent(E, node_id, board_id) ==
    \A e \in E : ~(/\ e.source_node_id = node_id /\ e.target_node_id = node_id
                    /\ e.board_id = board_id)

\* C22 as stated: a call of update_node_context that repeats the call before
\* it, on the same node and with nothing else written to storage in between,
\* returns what that call returned and leaves the stored context as it was.
C22_RefreshIdempotent ==
    (ret.op = "refresh" /\ ret.again) =>
        /\ ret.value = ret.prev
        /\ ret.value # Null => nodes[ret.node].context = ret.prev

\* C22 amended: the same, for a node that no edge of the board joins to
\* itself.
C22_RefreshIdempotentNoSelfLoop ==
    (ret.op = "refresh" /\ ret.again /\ NotOwnParent(ret.seen[2], ret.node, ret.board)) =>
        /\ ret.value = ret.prev
        /\ ret.value # Null => nodes[ret.node].context = ret.prev

\* C22 witness: a node with a parent other than itself was refreshed twice in
\* a row and both calls returned the same context.
C22_Witness ==
    /\ ret.op = "refresh" /\ ret.again
    /\ NotOwnParent(ret.seen[2], ret.node, ret.board)
    /\ ret.value # Null /\ ret.value = ret.prev
    /\ nodes[ret.node].context = ret.value

\* C23: build_context_with_highlight returns, for a parent that exists, a text
\* that holds the highlighted text in quotes, after the parent's stored context
\* (when it has one) and after its prompt and response lines; for a parent id
\* without a row it raises and returns nothing.
C23_HighlightContext ==
    (ret.op = "highlight" /\ ret.fault = "none") =>
        IF ret.node \in DOMAIN ret.seen[1]
        THEN LET P == ret.seen[1][ret.node]
                 v == ret.value
             IN  /\ ~ret.raised
                 /\ \E i \in DOMAIN v :
                        LET before == SubSeq(v, 1, i - 1)
                        IN  /\ v[i] = <<"\"", "h", "\"">>
                            /\ Contains(before, P.context)
                            /\ ~Falsy(P.prompt) =>
                                   Contains(before, << <<"Parent Node - User: ", P.prompt>> >>)
                            /\ ~Falsy(P.response) =>
                                   Contains(before,
                                            << <<"Parent Node - Assistant: ", P.response>> >>)
        ELSE ret.raised

\* C24: a context operation in which a storage call fails raises nothing and
\* returns None, and get_parent_nodes the empty list.
C24_StorageFaultsCaught ==
    /\ \A n \in NodeIds, b \in Boards, fault \in {"edges", "nodes"} :
           get_parent_nodes(n, b, fault) = <<>>
    /\ (ret.calls > 0 /\ ret.fault # "none") => (~ret.raised /\ ret.value = Null)

\* C30, termination: whatever the edges, a call of update_node_context on any
\* node has an outcome.
RefreshTerminates ==
    ret.calls < MaxRepeat =>
        \A n \in NodeIds : ENABLED update_node_context(n, FirstBoard, "none", MaxRepeat)

\* C30, growth: the context a refresh stores is longer than the context stored
\* for any parent it read; so for a node that is its own parent, or whose
\* parent's context was built from the node's, the stored context grows.
RefreshGrows ==
    RefreshStep =>
        \A e \in LiveInto(edges, ret'.node, ret'.board) :
            LET n == ret'.node
                P == nodes[e.source_node_id]
            IN  /\ Len(ret'.value) > Len(P.context)
                /\ nodes'[n].context = ret'.value
                /\ (e.source_node_id = n \/ (nodes[n].context # Null
                                              /\ Contains(P.context, nodes[n].context)))
                       => Len(nodes'[n].context) > Len(nodes[n].context)

\* C30: update_node_context terminates on every edge graph, cycles and edges
\* from a node to itself included, and along a cycle every further refresh
\* makes the stored context strictly longer.
C30_TerminatesAndGrowsOnCycles == []RefreshTerminates /\ [][RefreshGrows]_vars

\* C30 witness: n3, then n1, then n3 again were refreshed on the cycle
\* n1 -> n3 -> n1: the context of n1 holds n1's own title, which came round the
\* cycle, and the context of n3 holds all of it.
C30_Witness ==
    /\ ret.calls = 3 /\ ret.op = "refresh" /\ ret.fault = "none" /\ ret.node = "n3"
    /\ Contains(nodes["n1"].context, << <<"[", "T1", "]">> >>)
    /\ Contains(nodes["n3"].context, nodes["n1"].context)
    /\ Len(nodes["n3"].context) > Len(nodes["n1"].context)

\* ------------------------------------------------------------------ eviction and storage faults

\* C28: whenever a session's handler fans an event out, the connection the
\* event came from is a member of the room at that moment; the events of a
\* connection that was evicted are not fanned out.
C28_SenderIsMember ==
    \A c \in Sessions :
        LET f == frame[c]
        IN  (f.cont = "handler" /\ f.status \in {"sending", "returned"}) =>
                f.exclude \in f.room

\* C29: when the storage request of a node_moved event raised, the sender is
\* sent nothing for that event, no error event either; what the others are
\* sent for it is node_moved with the node id and the coordinates submitted;
\* the handler goes on to the rebroadcast, which reaches every other member
\* once when no send fails; and the session is still OPEN.
C29_StoreFaultSwallowed ==
    \A k \in DOMAIN writes :
        LET w == writes[k]
            c == w.from
            f == frame[c]
        IN  ~w.ok =>
                /\ Caused(c, c, w.seq) = {}
                /\ \A r \in Conns : \A i \in Caused(r, c, w.seq) :
                       /\ delivered[r][i].type = "node_moved"
                       /\ delivered[r][i].payload
                              = <<"node_id", w.id, "x", w.x, "y", w.y>>
                /\ (f.cont = "handler" /\ f.msg.seq = w.seq) =>
                       /\ f.msg.type = "node_moved"
                       /\ f.status \in {"sending", "returned"}
                       /\ SessionState(c) = "OPEN"
                       /\ (f.status = "returned" /\ f.disconnected = <<>>)
                              => \A r \in Meant(f) : Times(r, f.msg) = 1

\* C29 witness: the update for A's node_moved raised; B was sent node_moved
\* with n1, 0 and 20, A was sent nothing, and A's session waits for its next
\* text.
C29_Witness ==
    /\ Len(writes) = 1 /\ ~writes[1].ok /\ writes[1].from = "A"
    /\ frame["A"].status = "returned" /\ frame["A"].room = {"A", "B"}
    /\ \E i \in Caused("B", "A", 1) :
           /\ delivered["B"][i].type = "node_moved"
           /\ delivered["B"][i].payload = <<"node_id", "n1", "x", "0", "y", "20">>
    /\ Caused("A", "A", 1) = {}
    /\ pc["A"] = "recv" /\ transport["A"] = "open"

\* ------------------------------------------------------------------ the LLM paths and branch creation

\* C25: in every request that assembles a prompt for a node, update_node_context
\* was called for that node earlier in the same request, and the stored context
\* the prompt includes is the one that call returned when it returned one.
C25_RefreshBeforePrompt ==
    \A i \in DOMAIN req.log :
        req.log[i][1] = "prompt" =>
            /\ \E j \in 1..(i - 1) :
                   req.log[j][1] = "refresh" /\ req.log[j][3] = req.log[i][3]
            /\ (ret.node = req.node /\ ret.value # Null) => req.context = ret.value

\* C26: in a branch route, whenever the insert into edges fails after the node
\* was inserted, by returning no data or by raising, the delete of the new node
\* is issued afterwards and the request is answered with an error.
C26_EdgeFailureCompensated ==
    \A i \in DOMAIN req.log :
        (/\ req.log[i][1] = "insert" /\ req.log[i][2] = "edges"
         /\ req.log[i][4] \in {"nodata", "raise"}) =>
            /\ req.status = "500"
            /\ \E j \in DOMAIN req.log :
                   /\ j > i /\ req.log[j][1] = "delete" /\ req.log[j][2] = "nodes"
                   /\ req.log[j][3] = req.node

\* C27: after branch_highlight has answered 200, the context stored for the
\* new node holds the highlighted-text block and the conversation of the source
\* node.
C27_BranchContextMerged ==
    (req.route = "branch_highlight" /\ req.status = "200") =>
        LET ctx == nodes[req.node].context
            P == nodes[req.source]
        IN  /\ Contains(ctx, << <<"=== Highlighted Text from Parent Node ===">>,
                                 <<"\"", req.text, "\"">> >>)
            /\ ~Falsy(P.prompt) => Contains(ctx, << <<"User: ", P.prompt>> >>)
            /\ ~Falsy(P.response) => Contains(ctx, << <<"Assistant: ", P.response>> >>)

====
